---- MODULE Spec2Model ----
(***************************************************************************)
(* Model of the peer connection establishment and swarm orchestration code *)
(* of rain:                                                                *)
(*   - Dialer.Run            (internal/peermanager/dialer/dialer.go)       *)
(*   - Handler.Run           (internal/peermanager/acceptor/handler)       *)
(*   - newTransfer / transfer.Run                                          *)
(*   - prepareFiles / openOrAllocate, transfer.connect                     *)
(* Each component has its own next-state relation and specification; the   *)
(* variables of the other components are left unchanged by its actions.    *)
(***************************************************************************)
EXTENDS Integers, Sequences, FiniteSets, TLC

\* const maxDial = 40
maxDial == 40

\* Number of candidate addresses the peer-address source can deliver in a run.
MaxAddrs == 42

VARIABLES
    stopC,            \* the shared stop signal: TRUE once the channel is closed
    \* ---- Dialer ----
    dpc,              \* position of Dialer.Run
    limiter,          \* number of elements buffered in d.limiter
    running,          \* dial workers whose handler Run has not returned yet
    finishing,        \* dial workers whose Run returned, on-finish handler pending
    workersStopping,  \* d.workers.Stop() has told the workers to stop
    offered,          \* addresses received from d.peerList.Get() so far
    acquired,         \* history: number of sends on d.limiter
    released,         \* history: number of receives from d.limiter
    stopAt,           \* history: the select at which Run observed stopC
    \* ---- inbound Handlers (one per accepted socket) ----
    peerIDs,          \* the Peer Identity Registry of the swarm
    hpc,              \* position of each Handler.Run
    hPeerID,          \* peerID returned by btconn.Accept
    hPeerExt,         \* peerExtensions returned by btconn.Accept
    hAdvertised,      \* history: the extension bytes handed to btconn.Accept
    hSessionExt,      \* extensions handed to peer.New (<<>>: no session)
    hSessions,        \* history: number of Peer Sessions built by the handler
    hAdds,            \* history: number of peerIDs.Add calls made by the handler
    hConnClosed,      \* h.conn.Close() was called
    hOutcome,         \* history: how Run ended
    hRemoves,         \* history: number of peerIDs.Remove calls made by the handler
    \* ---- Transfer Coordinator ----
    tpc,              \* position of newTransfer / transfer.Run
    pieceLength,      \* pieces[i].length, set by newPieces from the torrent metadata
    checkHash,        \* result of prepareFiles
    hashIdx,          \* index of the next piece of the hash check loop
    bitField,         \* t.bitField: the pieces that we have
    piecePeers,       \* pieces[i].peers
    haveNotifyC,      \* number of wake-ups buffered in downloader.haveNotifyC
    dropped,          \* history: wake-ups dropped on the default case
    nHaves,           \* have events received so far
    nAnnounces,       \* announce responses received so far
    pendingPeers,     \* the peer list being sent on downloader.peersC (0: none)
    downloaderPeers,  \* history: the peer lists the downloader has received
    transfers,        \* keys of t in rain.transfers
    transfersSKey,    \* keys of t in rain.transfersSKey
    announceEvents,   \* history: events of the announce loops started
    transfersM,       \* rain.transfersM: "free" or "held" by transfer.Run
    announceErrors,   \* history: announce responses that carried an error
    hashRes,          \* history: result of each piece's hashCheck in newTransfer
    peerHave,         \* the have event the run loop is handling
    peersM,           \* piece.peersM of each piece: "free", "transfer" or "reader"
    \* ---- File Preparer ----
    fpc,              \* position of prepareFiles
    fMulti,           \* info.MultiFile
    fDeclared,        \* declared length of each file
    fPre,             \* each path on disk when prepareFiles is called
    fFail,            \* history: the failing I/O call of each openOrAllocate
    fRes,             \* result of each openOrAllocate call made
    fErr,             \* err returned by prepareFiles
    fCheckHash,       \* checkHash returned by prepareFiles
    \* ---- transfer.connect ----
    cpc,              \* position of each connect call
    cDial,            \* result of connection.Dial
    cLog,             \* history: level at which the dial error was logged
    cServed,          \* history: number of p.Serve calls
    cClosed           \* the deferred conn.Close() has run

dialerVars == <<dpc, limiter, running, finishing, workersStopping, offered,
                acquired, released, stopAt>>

handlerVars == <<peerIDs, hpc, hPeerID, hPeerExt, hAdvertised, hSessionExt,
                 hSessions, hAdds, hConnClosed, hOutcome, hRemoves>>

transferVars == <<tpc, pieceLength, checkHash, hashIdx, bitField, piecePeers, haveNotifyC,
                  dropped, nHaves, nAnnounces, pendingPeers, downloaderPeers, transfers,
                  transfersSKey, announceEvents, transfersM, announceErrors, hashRes,
                  peerHave, peersM>>

filesVars == <<fpc, fMulti, fDeclared, fPre, fFail, fRes, fErr, fCheckHash>>

connectVars == <<cpc, cDial, cLog, cServed, cClosed>>

vars == <<stopC, dialerVars, handlerVars, transferVars, filesVars, connectVars>>

----------------------------------------------------------------------------
(* Dialer *)

\* limiter: make(chan struct{}, maxDial)
limiterCapOffByOne == maxDial + 1
limiterCap == maxDial

DialerInit ==
    /\ dpc = "outer"
    /\ limiter = 0
    /\ running = 0
    /\ finishing = 0
    /\ workersStopping = FALSE
    /\ offered = 0
    /\ acquired = 0
    /\ released = 0
    /\ stopAt = "none"

\* what a step of the Dialer leaves alone
dialerOthers == <<handlerVars, transferVars, filesVars, connectVars>>

\* close(stopC) by the owner of the components
CloseStopC ==
    /\ ~stopC
    /\ stopC' = TRUE
    /\ UNCHANGED <<dialerVars, handlerVars, transferVars, filesVars, connectVars>>

\* outer select, case d.limiter <- struct{}{}: ready while the buffer has room
DialerAcquire ==
    /\ dpc = "outer"
    /\ limiter < limiterCap
    /\ limiter' = limiter + 1
    /\ acquired' = acquired + 1
    /\ dpc' = "inner"
    /\ UNCHANGED <<stopC, running, finishing, workersStopping, offered, released, stopAt>>
    /\ UNCHANGED dialerOthers

\* d.workers.Stop(): tell every outstanding worker to stop, then wait
WorkersStop ==
    /\ workersStopping' = TRUE
    /\ dpc' = "stopping"

\* outer select, case <-stopC
DialerStopOuter ==
    /\ dpc = "outer"
    /\ stopC
    /\ WorkersStop
    /\ stopAt' = "outer"
    /\ UNCHANGED <<stopC, limiter, running, finishing, offered, acquired, released>>
    /\ UNCHANGED dialerOthers

\* inner select, case addr := <-d.peerList.Get(): handler.New and
\* d.workers.StartWithOnFinishHandler(h, func() { <-d.limiter })
DialerGetAddr ==
    /\ dpc = "inner"
    /\ offered < MaxAddrs
    /\ offered' = offered + 1
    /\ running' = running + 1
    /\ dpc' = "outer"
    /\ UNCHANGED <<stopC, limiter, finishing, workersStopping, acquired, released, stopAt>>
    /\ UNCHANGED dialerOthers

\* inner select, case <-stopC
DialerStopInnerNoCase ==
    /\ FALSE
    /\ UNCHANGED vars

DialerStopInner ==
    /\ dpc = "inner"
    /\ stopC
    /\ WorkersStop
    /\ stopAt' = "inner"
    /\ UNCHANGED <<stopC, limiter, running, finishing, offered, acquired, released>>
    /\ UNCHANGED dialerOthers

\* d.workers.Stop() returns once every worker's Run has returned; Run returns
DialerReturn ==
    /\ dpc = "stopping"
    /\ running = 0
    /\ dpc' = "returned"
    /\ UNCHANGED <<stopC, limiter, running, finishing, workersStopping, offered,
                   acquired, released, stopAt>>
    /\ UNCHANGED dialerOthers

\* a dial worker's handler returns (handshake failure, duplicate peer,
\* session end, or told to stop)
WorkerRunReturns ==
    /\ running > 0
    /\ running' = running - 1
    /\ finishing' = finishing + 1
    /\ UNCHANGED <<stopC, dpc, limiter, workersStopping, offered, acquired, released, stopAt>>
    /\ UNCHANGED dialerOthers

\* the on-finish handler of a worker: func() { <-d.limiter }
WorkerOnFinish ==
    /\ finishing > 0
    /\ limiter > 0
    /\ limiter' = limiter - 1
    /\ released' = released + 1
    /\ finishing' = finishing - 1
    /\ UNCHANGED <<stopC, dpc, running, workersStopping, offered, acquired, stopAt>>
    /\ UNCHANGED dialerOthers

DialerNext ==
    \/ CloseStopC
    \/ DialerAcquire
    \/ DialerStopOuter
    \/ DialerGetAddr
    \/ DialerStopInner
    \/ DialerReturn
    \/ WorkerRunReturns
    \/ WorkerOnFinish

----------------------------------------------------------------------------
(* Capability Bitset: bitfield.Bitfield over a byte slice, bit 0 is the    *)
(* most significant bit of the first byte.                                 *)

\* a & b on n-bit operands
RECURSIVE BitsAnd(_, _, _)
BitsAnd(a, b, n) ==
    IF n = 0 THEN 0
    ELSE (IF a % 2 = 1 /\ b % 2 = 1 THEN 1 ELSE 0) + 2 * BitsAnd(a \div 2, b \div 2, n - 1)

\* a | b on n-bit operands
RECURSIVE BitsOr(_, _, _)
BitsOr(a, b, n) ==
    IF n = 0 THEN 0
    ELSE (IF a % 2 = 1 \/ b % 2 = 1 THEN 1 ELSE 0) + 2 * BitsOr(a \div 2, b \div 2, n - 1)

\* width of the extension field in bits: bitfield.NewBytes(x[:], 64)
ExtensionBits == 64

\* [8]byte{}
ZeroExtensions == [k \in 1..(ExtensionBits \div 8) |-> 0]

\* bitfield.NewBytes(b, length): the bitfield is backed by the bytes of b
NewBytes(b, length) == [k \in 1..(length \div 8) |-> b[k]]

\* Bitfield.Set(i)
Set(bf, i) == [bf EXCEPT ![(i \div 8) + 1] = BitsOr(@, 2^(7 - (i % 8)), 8)]

\* Bitfield.Test(i)
Test(bf, i) == (bf[(i \div 8) + 1] \div 2^(7 - (i % 8))) % 2 = 1

\* Bitfield.And(other)
And(a, b) == [k \in DOMAIN a |-> BitsAnd(a[k], b[k], 8)]

\* the union of two bitfields
Or(a, b) == [k \in DOMAIN a |-> BitsOr(a[k], b[k], 8)]

----------------------------------------------------------------------------
(* Peer Identity Registry: peerids.PeerIDs, add-if-absent under one mutex  *)

\* PeerIDs.Add(id): <<ok, registry after the call>>
Add(registry, id) == <<id \notin registry, registry \cup {id}>>

\* PeerIDs.Remove(id)
Remove(registry, id) == registry \ {id}

----------------------------------------------------------------------------
(* Inbound Connection Handler *)

\* number of sockets accepted concurrently for the swarm
NumHandlers == 3

Handlers == 1..NumHandlers

\* remote peer identifiers a handshake can yield
RemotePeerIDs == {"peerA", "peerB"}

\* extension bytes a remote peer can advertise
RemoteExtensions ==
    { ZeroExtensions,
      Set(Set(ZeroExtensions, 61), 5),
      [k \in 1..(ExtensionBits \div 8) |-> 255] }

\* ourbf := bitfield.NewBytes(ourExtensions[:], 64); ourbf.Set(61)
ourbf == Set(NewBytes(ZeroExtensions, ExtensionBits), 61)

\* the array ourExtensions when btconn.Accept is called: ourbf is backed by
\* the slice ourExtensions[:], so Set(61) has written into the array
ourExtensions == ourbf

HandlerInit ==
    /\ peerIDs = {}
    /\ hpc = [h \in Handlers |-> "start"]
    /\ hPeerID = [h \in Handlers |-> "none"]
    /\ hPeerExt = [h \in Handlers |-> <<>>]
    /\ hAdvertised = [h \in Handlers |-> <<>>]
    /\ hSessionExt = [h \in Handlers |-> <<>>]
    /\ hSessions = [h \in Handlers |-> 0]
    /\ hAdds = [h \in Handlers |-> 0]
    /\ hConnClosed = [h \in Handlers |-> FALSE]
    /\ hOutcome = [h \in Handlers |-> "none"]
    /\ hRemoves = [h \in Handlers |-> 0]

\* what a step of a Handler leaves alone
handlerOthers == <<dialerVars, transferVars, filesVars, connectVars>>

\* the locals of a Run that has returned
ReturnedLocals(h) ==
    /\ hPeerID' = [hPeerID EXCEPT ![h] = "none"]
    /\ hPeerExt' = [hPeerExt EXCEPT ![h] = <<>>]
    /\ hSessionExt' = [hSessionExt EXCEPT ![h] = <<>>]
    /\ hpc' = [hpc EXCEPT ![h] = "done"]

\* btconn.Accept returns an error: log, h.conn.Close(), return
HandlerAcceptFailNoClose(h) ==
    /\ hpc[h] = "start"
    /\ hAdvertised' = [hAdvertised EXCEPT ![h] = ourExtensions]
    /\ hOutcome' = [hOutcome EXCEPT ![h] = "handshakeError"]
    /\ ReturnedLocals(h)
    /\ UNCHANGED <<stopC, peerIDs, hSessions, hAdds, hRemoves, hConnClosed>>
    /\ UNCHANGED handlerOthers

HandlerAcceptFail(h) ==
    /\ hpc[h] = "start"
    /\ hAdvertised' = [hAdvertised EXCEPT ![h] = ourExtensions]
    /\ hConnClosed' = [hConnClosed EXCEPT ![h] = TRUE]
    /\ hOutcome' = [hOutcome EXCEPT ![h] = "handshakeError"]
    /\ ReturnedLocals(h)
    /\ UNCHANGED <<stopC, peerIDs, hSessions, hAdds, hRemoves>>
    /\ UNCHANGED handlerOthers

\* btconn.Accept succeeds and yields the remote extensions and peer id
HandlerAcceptOk(h) ==
    /\ hpc[h] = "start"
    /\ \E id \in RemotePeerIDs, ext \in RemoteExtensions :
          /\ hPeerID' = [hPeerID EXCEPT ![h] = id]
          /\ hPeerExt' = [hPeerExt EXCEPT ![h] = ext]
    /\ hAdvertised' = [hAdvertised EXCEPT ![h] = ourExtensions]
    /\ hpc' = [hpc EXCEPT ![h] = "accepted"]
    /\ UNCHANGED <<stopC, peerIDs, hSessionExt, hSessions, hAdds, hConnClosed, hOutcome, hRemoves>>
    /\ UNCHANGED handlerOthers

\* ok := h.peerIDs.Add(peerID); if !ok { h.conn.Close(); return };
\* defer h.peerIDs.Remove(peerID)
HandlerAddIgnoresOk(h) ==
    /\ hpc[h] = "accepted"
    /\ hAdds' = [hAdds EXCEPT ![h] = @ + 1]
    /\ peerIDs' = Add(peerIDs, hPeerID[h])[2]
    /\ hpc' = [hpc EXCEPT ![h] = "added"]
    /\ UNCHANGED <<stopC, hPeerID, hPeerExt, hAdvertised, hSessionExt, hSessions,
                   hRemoves, hConnClosed, hOutcome>>
    /\ UNCHANGED handlerOthers

HandlerAddDeferFirst(h) ==
    /\ hpc[h] = "accepted"
    /\ hAdds' = [hAdds EXCEPT ![h] = @ + 1]
    /\ LET r == Add(peerIDs, hPeerID[h])
           ok == r[1]
       IN IF ok
          THEN /\ peerIDs' = r[2]
               /\ hpc' = [hpc EXCEPT ![h] = "added"]
               /\ UNCHANGED <<hPeerID, hPeerExt, hSessionExt, hConnClosed, hOutcome, hRemoves>>
          ELSE /\ peerIDs' = Remove(r[2], hPeerID[h])
               /\ hRemoves' = [hRemoves EXCEPT ![h] = @ + 1]
               /\ hConnClosed' = [hConnClosed EXCEPT ![h] = TRUE]
               /\ hOutcome' = [hOutcome EXCEPT ![h] = "duplicate"]
               /\ ReturnedLocals(h)
    /\ UNCHANGED <<stopC, hAdvertised, hSessions>>
    /\ UNCHANGED handlerOthers

HandlerAdd(h) ==
    /\ hpc[h] = "accepted"
    /\ hAdds' = [hAdds EXCEPT ![h] = @ + 1]
    /\ LET r == Add(peerIDs, hPeerID[h])
           ok == r[1]
       IN /\ peerIDs' = r[2]
          /\ IF ok
             THEN /\ hpc' = [hpc EXCEPT ![h] = "added"]
                  /\ UNCHANGED <<hPeerID, hPeerExt, hSessionExt, hConnClosed, hOutcome>>
             ELSE /\ hConnClosed' = [hConnClosed EXCEPT ![h] = TRUE]
                  /\ hOutcome' = [hOutcome EXCEPT ![h] = "duplicate"]
                  /\ ReturnedLocals(h)
    /\ UNCHANGED <<stopC, hAdvertised, hSessions, hRemoves>>
    /\ UNCHANGED handlerOthers

\* peerbf := bitfield.NewBytes(peerExtensions[:], 64); extensions := ourbf.And(peerbf)
EffectiveExtensionsUnion(peerExtensions) ==
    Or(ourbf, NewBytes(peerExtensions, ExtensionBits))

EffectiveExtensions(peerExtensions) ==
    And(ourbf, NewBytes(peerExtensions, ExtensionBits))

\* p := peer.New(encConn, peerID, extensions, ...); p.Run(stopC) starts
HandlerStartSessionBeforeAdd(h) ==
    /\ hpc[h] = "accepted"
    /\ hSessionExt' = [hSessionExt EXCEPT ![h] = EffectiveExtensions(hPeerExt[h])]
    /\ hSessions' = [hSessions EXCEPT ![h] = @ + 1]
    /\ UNCHANGED hAdds
    /\ hpc' = [hpc EXCEPT ![h] = "session"]
    /\ UNCHANGED <<stopC, peerIDs, hPeerID, hPeerExt, hAdvertised, hConnClosed,
                   hOutcome, hRemoves>>
    /\ UNCHANGED handlerOthers

HandlerStartSession(h) ==
    /\ hpc[h] = "added"
    /\ hSessionExt' = [hSessionExt EXCEPT ![h] = EffectiveExtensions(hPeerExt[h])]
    /\ hSessions' = [hSessions EXCEPT ![h] = @ + 1]
    /\ UNCHANGED hAdds
    /\ hpc' = [hpc EXCEPT ![h] = "session"]
    /\ UNCHANGED <<stopC, peerIDs, hPeerID, hPeerExt, hAdvertised, hConnClosed,
                   hOutcome, hRemoves>>
    /\ UNCHANGED handlerOthers

\* p.Run(stopC) returns because the session ended
HandlerSessionEnds(h) ==
    /\ hpc[h] = "session"
    /\ hpc' = [hpc EXCEPT ![h] = "returning"]
    /\ hOutcome' = [hOutcome EXCEPT ![h] = "sessionEnded"]
    /\ UNCHANGED <<stopC, peerIDs, hPeerID, hPeerExt, hAdvertised, hSessionExt,
                   hSessions, hAdds, hConnClosed, hRemoves>>
    /\ UNCHANGED handlerOthers

\* p.Run(stopC) returns because stopC was closed
HandlerSessionStopped(h) ==
    /\ hpc[h] = "session"
    /\ stopC
    /\ hpc' = [hpc EXCEPT ![h] = "returning"]
    /\ hOutcome' = [hOutcome EXCEPT ![h] = "stopped"]
    /\ UNCHANGED <<stopC, peerIDs, hPeerID, hPeerExt, hAdvertised, hSessionExt,
                   hSessions, hAdds, hConnClosed, hRemoves>>
    /\ UNCHANGED handlerOthers

\* Run returns: the deferred h.peerIDs.Remove(peerID) runs
HandlerReturnNoRemove(h) ==
    /\ hpc[h] = "returning"
    /\ ReturnedLocals(h)
    /\ UNCHANGED <<stopC, peerIDs, hAdvertised, hSessions, hAdds, hConnClosed, hOutcome, hRemoves>>
    /\ UNCHANGED handlerOthers

HandlerReturn(h) ==
    /\ hpc[h] = "returning"
    /\ peerIDs' = Remove(peerIDs, hPeerID[h])
    /\ hRemoves' = [hRemoves EXCEPT ![h] = @ + 1]
    /\ ReturnedLocals(h)
    /\ UNCHANGED <<stopC, hAdvertised, hSessions, hAdds, hConnClosed, hOutcome>>
    /\ UNCHANGED handlerOthers

HandlerNext ==
    \/ CloseStopC
    \/ \E h \in Handlers :
          \/ HandlerAcceptFail(h)
          \/ HandlerAcceptOk(h)
          \/ HandlerAdd(h)
          \/ HandlerStartSession(h)
          \/ HandlerSessionEnds(h)
          \/ HandlerSessionStopped(h)
          \/ HandlerReturn(h)

----------------------------------------------------------------------------

(* Transfer Coordinator: newTransfer and transfer.Run *)

\* number of pieces of the torrent drawn: len(pieces)
NumPieces == 2

\* <<Info.PieceLength, length of the last piece>> of the torrents drawn
TorrentPieceLengths == {<<2, 1>>}

\* have events and announce responses delivered to the run loop in a run
MaxHaves == 2
MaxAnnounces == 2

PieceIndexes == 0..(NumPieces - 1)

\* peers that report pieces
HavePeers == {"peer1", "peer2"}

\* the content identifier and its obfuscated secret-key hash: mse.HashSKey
InfoHash == "infoHash"
HashSKey(infoHash) == <<"sKeyHash", infoHash>>

\* bitfield.New(length): all bits unset
New(length) == [k \in 1..((length + 7) \div 8) |-> 0]

\* Bitfield.All()
All(bf, length) == \A i \in 0..(length - 1) : Test(bf, i)

\* capacity of downloader.haveNotifyC: a single-slot wake-up channel
haveNotifyCap == 1

RECURSIVE SumLengths(_, _, _)
SumLengths(bf, lengths, n) ==
    IF n = 0 THEN 0
    ELSE SumLengths(bf, lengths, n - 1) + (IF Test(bf, n - 1) THEN lengths[n - 1] ELSE 0)

\* transfer.Downloaded(): sum of the lengths of the pieces whose bit is set
Downloaded(bf, lengths) == SumLengths(bf, lengths, NumPieces)

\* Info.TotalLength
TotalLength(lengths) == SumLengths([k \in 1..((NumPieces + 7) \div 8) |-> 255], lengths, NumPieces)

\* transfer.Left()
Left(bf, lengths) == TotalLength(lengths) - Downloaded(bf, lengths)

\* positions of transfer.Run inside its event loop
RunLoop == {"select", "sendPeers", "haveRecv", "haveLocked", "haveAppended", "notify"}

\* positions of transfer.Run in and after its deferred function
Unwind == {"unwinding", "deferLocked", "deferDeleted", "deferDeletedSKey", "exited"}

\* no hash check made / no have event in hand
NoHashRes == [i \in PieceIndexes |-> "none"]
NoPeerHave == [peer |-> "none", piece |-> -1]

TransferInit ==
    /\ tpc = "new"
    /\ pieceLength = [i \in PieceIndexes |-> 0]
    /\ checkHash = FALSE
    /\ hashIdx = 0
    /\ bitField = New(NumPieces)
    /\ piecePeers = [i \in PieceIndexes |-> <<>>]
    /\ haveNotifyC = 0
    /\ dropped = 0
    /\ nHaves = 0
    /\ nAnnounces = 0
    /\ pendingPeers = 0
    /\ downloaderPeers = <<>>
    /\ transfers = {}
    /\ transfersSKey = {}
    /\ announceEvents = <<>>
    /\ transfersM = "free"
    /\ announceErrors = 0
    /\ hashRes = NoHashRes
    /\ peerHave = NoPeerHave
    /\ peersM = [i \in PieceIndexes |-> "free"]

\* what a step of the transfer leaves alone
transferOthers == <<dialerVars, handlerVars, filesVars, connectVars>>

\* newTransfer up to the hash check: tracker.New and prepareFiles fail, or
\* the pieces and an empty bitfield are built
NewTransferPrepare ==
    /\ tpc = "new"
    /\ \/ /\ tpc' = "failed"
          /\ UNCHANGED <<checkHash, bitField, pieceLength>>
       \/ \E ch \in BOOLEAN, l \in TorrentPieceLengths :
             /\ checkHash' = ch
             /\ pieceLength' = [i \in PieceIndexes |->
                                   IF i = NumPieces - 1 THEN l[2] ELSE l[1]]
             /\ bitField' = New(NumPieces)
             /\ tpc' = IF ch THEN "hashCheck" ELSE "created"
    /\ UNCHANGED <<stopC, hashIdx, piecePeers, haveNotifyC, dropped, nHaves,
                   nAnnounces, pendingPeers, downloaderPeers, transfers, transfersSKey,
                   announceEvents, transfersM, announceErrors,
                   hashRes, peerHave,
                   peersM>>
    /\ UNCHANGED transferOthers

\* one iteration of the hash check loop: ok, err := p.hashCheck()
NewTransferHashCheckFresh ==
    /\ tpc = "hashCheck"
    /\ hashIdx < NumPieces
    /\ \E r \in {"ok", "mismatch", "error"} :
          /\ hashRes' = [hashRes EXCEPT ![hashIdx] = r]
          /\ IF r = "error"
             THEN /\ tpc' = "failed"
                  /\ UNCHANGED <<bitField, hashIdx>>
             ELSE /\ bitField' = IF r = "ok" THEN Set(New(NumPieces), hashIdx)
                                             ELSE New(NumPieces)
                  /\ hashIdx' = hashIdx + 1
                  /\ tpc' = IF hashIdx + 1 = NumPieces THEN "created" ELSE "hashCheck"
    /\ UNCHANGED <<stopC, pieceLength, checkHash, piecePeers, haveNotifyC, dropped, nHaves,
                   nAnnounces, pendingPeers, downloaderPeers, transfers, transfersSKey,
                   announceEvents, transfersM, announceErrors, peerHave,
                   peersM>>
    /\ UNCHANGED transferOthers

NewTransferHashCheckSetsAlways ==
    /\ tpc = "hashCheck"
    /\ hashIdx < NumPieces
    /\ \E r \in {"ok", "mismatch", "error"} :
          /\ hashRes' = [hashRes EXCEPT ![hashIdx] = r]
          /\ IF r = "error"
             THEN /\ tpc' = "failed"
                  /\ UNCHANGED <<bitField, hashIdx>>
             ELSE /\ bitField' = Set(bitField, hashIdx)
                  /\ hashIdx' = hashIdx + 1
                  /\ tpc' = IF hashIdx + 1 = NumPieces THEN "created" ELSE "hashCheck"
    /\ UNCHANGED <<stopC, pieceLength, checkHash, piecePeers, haveNotifyC, dropped, nHaves,
                   nAnnounces, pendingPeers, downloaderPeers, transfers, transfersSKey,
                   announceEvents, transfersM, announceErrors, peerHave,
                   peersM>>
    /\ UNCHANGED transferOthers

NewTransferHashCheck ==
    /\ tpc = "hashCheck"
    /\ hashIdx < NumPieces
    /\ \E r \in {"ok", "mismatch", "error"} :
          /\ hashRes' = [hashRes EXCEPT ![hashIdx] = r]
          /\ IF r = "error"
             THEN /\ tpc' = "failed"
                  /\ UNCHANGED <<bitField, hashIdx>>
             ELSE /\ bitField' = IF r = "ok" THEN Set(bitField, hashIdx) ELSE bitField
                  /\ hashIdx' = hashIdx + 1
                  /\ tpc' = IF hashIdx + 1 = NumPieces THEN "created" ELSE "hashCheck"
    /\ UNCHANGED <<stopC, pieceLength, checkHash, piecePeers, haveNotifyC, dropped, nHaves,
                   nAnnounces, pendingPeers, downloaderPeers, transfers, transfersSKey,
                   announceEvents, transfersM, announceErrors, peerHave,
                   peersM>>
    /\ UNCHANGED transferOthers

\* transfer.Run: t.rain.transfersM.Lock(); the locals of newTransfer
\* (checkHash, the loop index, the results of the hash checks) are out of
\* scope from here on
TransferRunLock ==
    /\ tpc = "created"
    /\ transfersM = "free"
    /\ transfersM' = "held"
    /\ hashRes' = NoHashRes
    /\ checkHash' = FALSE
    /\ hashIdx' = 0
    /\ tpc' = "locked"
    /\ UNCHANGED <<stopC, pieceLength, bitField, piecePeers, haveNotifyC,
                   dropped, nHaves, nAnnounces, pendingPeers, downloaderPeers, transfers,
                   transfersSKey, announceEvents, announceErrors, peerHave,
                   peersM>>
    /\ UNCHANGED transferOthers

\* t.rain.transfers[t.torrent.Info.Hash] = t
TransferRunInsert ==
    /\ tpc = "locked"
    /\ transfers' = transfers \cup {InfoHash}
    /\ tpc' = "inserted"
    /\ UNCHANGED <<stopC, pieceLength, checkHash, hashIdx, bitField, piecePeers, haveNotifyC,
                   dropped, nHaves, nAnnounces, pendingPeers, downloaderPeers,
                   transfersSKey, announceEvents, transfersM, announceErrors, hashRes,
                   peerHave,
                   peersM>>
    /\ UNCHANGED transferOthers

\* t.rain.transfersSKey[sKey] = t
TransferRunInsertSKey ==
    /\ tpc = "inserted"
    /\ transfersSKey' = transfersSKey \cup {HashSKey(InfoHash)}
    /\ tpc' = "insertedSKey"
    /\ UNCHANGED <<stopC, pieceLength, checkHash, hashIdx, bitField, piecePeers, haveNotifyC,
                   dropped, nHaves, nAnnounces, pendingPeers, downloaderPeers,
                   transfers, announceEvents, transfersM, announceErrors, hashRes,
                   peerHave,
                   peersM>>
    /\ UNCHANGED transferOthers

\* t.rain.transfersM.Unlock()
TransferRunUnlock ==
    /\ tpc = "insertedSKey"
    /\ transfersM' = "free"
    /\ tpc' = "registered"
    /\ UNCHANGED <<stopC, pieceLength, checkHash, hashIdx, bitField, piecePeers, haveNotifyC,
                   dropped, nHaves, nAnnounces, pendingPeers, downloaderPeers, transfers,
                   transfersSKey, announceEvents, announceErrors, hashRes, peerHave,
                   peersM>>
    /\ UNCHANGED transferOthers

\* transfer.Run from the registration to the event loop: start the announce
\* loop with the event chosen from the bitfield, the downloader and the
\* uploader
TransferRunStartAnnouncesStarted ==
    /\ tpc = "registered"
    /\ announceEvents' = Append(announceEvents, "started")
    /\ tpc' = "select"
    /\ UNCHANGED <<stopC, pieceLength, checkHash, hashIdx, bitField, piecePeers, haveNotifyC,
                   dropped, nHaves, nAnnounces, pendingPeers, downloaderPeers, transfers,
                   transfersSKey, transfersM, announceErrors, hashRes, peerHave,
                   peersM>>
    /\ UNCHANGED transferOthers

TransferRunStart ==
    /\ tpc = "registered"
    /\ announceEvents' = Append(announceEvents,
                                IF All(bitField, NumPieces) THEN "completed" ELSE "started")
    /\ tpc' = "select"
    /\ UNCHANGED <<stopC, pieceLength, checkHash, hashIdx, bitField, piecePeers, haveNotifyC,
                   dropped, nHaves, nAnnounces, pendingPeers, downloaderPeers, transfers,
                   transfersSKey, transfersM, announceErrors, hashRes, peerHave,
                   peersM>>
    /\ UNCHANGED transferOthers

\* case announceResponse := <-announceC
TransferAnnounceResponseNoBreak ==
    /\ tpc = "select"
    /\ nAnnounces < MaxAnnounces
    /\ nAnnounces' = nAnnounces + 1
    /\ \E err \in BOOLEAN :
          /\ announceErrors' = IF err THEN announceErrors + 1 ELSE announceErrors
          /\ pendingPeers' = nAnnounces + 1
          /\ tpc' = "sendPeers"
    /\ UNCHANGED <<stopC, pieceLength, checkHash, hashIdx, bitField, piecePeers, haveNotifyC,
                   dropped, nHaves, downloaderPeers, transfers, transfersSKey, announceEvents,
                   transfersM, hashRes, peerHave,
                   peersM>>
    /\ UNCHANGED transferOthers

TransferAnnounceResponse ==
    /\ tpc = "select"
    /\ nAnnounces < MaxAnnounces
    /\ nAnnounces' = nAnnounces + 1
    /\ \E err \in BOOLEAN :
          IF err
          THEN /\ announceErrors' = announceErrors + 1
               /\ UNCHANGED <<tpc, pendingPeers>>
          ELSE /\ pendingPeers' = nAnnounces + 1
               /\ tpc' = "sendPeers"
               /\ UNCHANGED announceErrors
    /\ UNCHANGED <<stopC, pieceLength, checkHash, hashIdx, bitField, piecePeers, haveNotifyC,
                   dropped, nHaves, downloaderPeers, transfers, transfersSKey, announceEvents,
                   transfersM, hashRes, peerHave,
                   peersM>>
    /\ UNCHANGED transferOthers

\* downloader.peersC <- announceResponse.Peers completes when the
\* downloader receives the list
DownloaderRecvPeers ==
    /\ tpc = "sendPeers"
    /\ downloaderPeers' = Append(downloaderPeers, pendingPeers)
    /\ pendingPeers' = 0
    /\ tpc' = "select"
    /\ UNCHANGED <<stopC, pieceLength, checkHash, hashIdx, bitField, piecePeers, haveNotifyC,
                   dropped, nHaves, nAnnounces, transfers, transfersSKey, announceEvents,
                   transfersM, announceErrors, hashRes, peerHave,
                   peersM>>
    /\ UNCHANGED transferOthers

\* case peerHave := <-t.haveC
TransferRecvHave ==
    /\ tpc = "select"
    /\ nHaves < MaxHaves
    /\ nHaves' = nHaves + 1
    /\ \E peer \in HavePeers, piece \in PieceIndexes :
          peerHave' = [peer |-> peer, piece |-> piece]
    /\ tpc' = "haveRecv"
    /\ UNCHANGED <<stopC, pieceLength, checkHash, hashIdx, bitField, piecePeers, haveNotifyC,
                   dropped, nAnnounces, pendingPeers, downloaderPeers, transfers,
                   transfersSKey, announceEvents, transfersM, announceErrors, hashRes, peersM>>
    /\ UNCHANGED transferOthers

\* piece.peersM.Lock(): waits while another goroutine holds the piece's mutex
TransferPieceLock ==
    /\ tpc = "haveRecv"
    /\ peersM[peerHave.piece] = "free"
    /\ peersM' = [peersM EXCEPT ![peerHave.piece] = "transfer"]
    /\ tpc' = "haveLocked"
    /\ UNCHANGED <<stopC, pieceLength, checkHash, hashIdx, bitField, piecePeers, haveNotifyC,
                   dropped, nHaves, nAnnounces, pendingPeers, downloaderPeers, transfers,
                   transfersSKey, announceEvents, transfersM, announceErrors, hashRes,
                   peerHave>>
    /\ UNCHANGED transferOthers

\* piece.peers = append(piece.peers, peerHave.peer)
TransferPieceAppendFirstPiece ==
    /\ tpc = "haveLocked"
    /\ piecePeers' = [piecePeers EXCEPT ![0] = Append(@, peerHave.peer)]
    /\ tpc' = "haveAppended"
    /\ UNCHANGED <<stopC, pieceLength, checkHash, hashIdx, bitField, haveNotifyC, dropped,
                   nHaves, nAnnounces, pendingPeers, downloaderPeers, transfers,
                   transfersSKey, announceEvents, transfersM, announceErrors, hashRes,
                   peerHave, peersM>>
    /\ UNCHANGED transferOthers

TransferPieceAppend ==
    /\ tpc = "haveLocked"
    /\ piecePeers' = [piecePeers EXCEPT ![peerHave.piece] = Append(@, peerHave.peer)]
    /\ tpc' = "haveAppended"
    /\ UNCHANGED <<stopC, pieceLength, checkHash, hashIdx, bitField, haveNotifyC, dropped,
                   nHaves, nAnnounces, pendingPeers, downloaderPeers, transfers,
                   transfersSKey, announceEvents, transfersM, announceErrors, hashRes,
                   peerHave, peersM>>
    /\ UNCHANGED transferOthers

\* piece.peersM.Unlock()
TransferPieceUnlock ==
    /\ tpc = "haveAppended"
    /\ peersM' = [peersM EXCEPT ![peerHave.piece] = "free"]
    /\ tpc' = "notify"
    /\ UNCHANGED <<stopC, pieceLength, checkHash, hashIdx, bitField, piecePeers, haveNotifyC,
                   dropped, nHaves, nAnnounces, pendingPeers, downloaderPeers, transfers,
                   transfersSKey, announceEvents, transfersM, announceErrors, hashRes,
                   peerHave>>
    /\ UNCHANGED transferOthers

\* select { case downloader.haveNotifyC <- struct{}{}: default: }
TransferNotifyBlocking ==
    /\ tpc = "notify"
    /\ haveNotifyC < haveNotifyCap
    /\ haveNotifyC' = haveNotifyC + 1
    /\ peerHave' = NoPeerHave
    /\ tpc' = "select"
    /\ UNCHANGED <<stopC, pieceLength, checkHash, hashIdx, bitField, piecePeers, dropped, nHaves,
                   nAnnounces, pendingPeers, downloaderPeers, transfers, transfersSKey,
                   announceEvents, transfersM, announceErrors, hashRes, peersM>>
    /\ UNCHANGED transferOthers

TransferNotify ==
    /\ tpc = "notify"
    /\ IF haveNotifyC < haveNotifyCap
       THEN /\ haveNotifyC' = haveNotifyC + 1
            /\ UNCHANGED dropped
       ELSE /\ dropped' = dropped + 1
            /\ UNCHANGED haveNotifyC
    /\ peerHave' = NoPeerHave
    /\ tpc' = "select"
    /\ UNCHANGED <<stopC, pieceLength, checkHash, hashIdx, bitField, piecePeers, nHaves,
                   nAnnounces, pendingPeers, downloaderPeers, transfers, transfersSKey,
                   announceEvents, transfersM, announceErrors, hashRes, peersM>>
    /\ UNCHANGED transferOthers

\* a goroutine that reads piece.peers takes the piece's mutex for the read;
\* it holds the mutex of one piece at a time
PiecePeersReaderLock ==
    /\ tpc \in RunLoop \cup (Unwind \ {"exited"})
    /\ \A j \in PieceIndexes : peersM[j] # "reader"
    /\ \E i \in PieceIndexes :
          /\ peersM[i] = "free"
          /\ peersM' = [peersM EXCEPT ![i] = "reader"]
    /\ UNCHANGED <<stopC, tpc, pieceLength, checkHash, hashIdx, bitField, piecePeers,
                   haveNotifyC, dropped, nHaves, nAnnounces, pendingPeers, downloaderPeers,
                   transfers, transfersSKey, announceEvents, transfersM, announceErrors,
                   hashRes, peerHave>>
    /\ UNCHANGED transferOthers

PiecePeersReaderUnlock ==
    /\ \E i \in PieceIndexes :
          /\ peersM[i] = "reader"
          /\ peersM' = [peersM EXCEPT ![i] = "free"]
    /\ UNCHANGED <<stopC, tpc, pieceLength, checkHash, hashIdx, bitField, piecePeers,
                   haveNotifyC, dropped, nHaves, nAnnounces, pendingPeers, downloaderPeers,
                   transfers, transfersSKey, announceEvents, transfersM, announceErrors,
                   hashRes, peerHave>>
    /\ UNCHANGED transferOthers

\* case announceResponse := <-announceC on a closed channel: the receive
\* yields nil, announceResponse.Error panics, and Run unwinds into its
\* deferred function
TransferRunUnwind ==
    /\ tpc = "select"
    /\ tpc' = "unwinding"
    /\ UNCHANGED <<stopC, pieceLength, checkHash, hashIdx, bitField, piecePeers, haveNotifyC,
                   dropped, nHaves, nAnnounces, pendingPeers, downloaderPeers, transfers,
                   transfersSKey, announceEvents, transfersM, announceErrors, hashRes,
                   peerHave, peersM>>
    /\ UNCHANGED transferOthers

\* deferred function: t.rain.transfersM.Lock()
TransferDeferLock ==
    /\ tpc = "unwinding"
    /\ transfersM = "free"
    /\ transfersM' = "held"
    /\ tpc' = "deferLocked"
    /\ UNCHANGED <<stopC, pieceLength, checkHash, hashIdx, bitField, piecePeers, haveNotifyC,
                   dropped, nHaves, nAnnounces, pendingPeers, downloaderPeers, transfers,
                   transfersSKey, announceEvents, announceErrors, hashRes, peerHave, peersM>>
    /\ UNCHANGED transferOthers

\* delete(t.rain.transfers, t.torrent.Info.Hash)
TransferDeferDeleteReleases ==
    /\ tpc = "deferLocked"
    /\ transfers' = transfers \ {InfoHash}
    /\ transfersM' = "free"
    /\ tpc' = "deferDeleted"
    /\ UNCHANGED <<stopC, pieceLength, checkHash, hashIdx, bitField, piecePeers, haveNotifyC,
                   dropped, nHaves, nAnnounces, pendingPeers, downloaderPeers,
                   transfersSKey, announceEvents, announceErrors, hashRes, peerHave, peersM>>
    /\ UNCHANGED transferOthers

TransferDeferDelete ==
    /\ tpc = "deferLocked"
    /\ transfers' = transfers \ {InfoHash}
    /\ tpc' = "deferDeleted"
    /\ UNCHANGED <<stopC, pieceLength, checkHash, hashIdx, bitField, piecePeers, haveNotifyC,
                   dropped, nHaves, nAnnounces, pendingPeers, downloaderPeers,
                   transfersSKey, announceEvents, transfersM, announceErrors, hashRes,
                   peerHave, peersM>>
    /\ UNCHANGED transferOthers

\* delete(t.rain.transfersSKey, sKey)
TransferDeferDeleteSKey ==
    /\ tpc = "deferDeleted"
    /\ transfersSKey' = transfersSKey \ {HashSKey(InfoHash)}
    /\ tpc' = "deferDeletedSKey"
    /\ UNCHANGED <<stopC, pieceLength, checkHash, hashIdx, bitField, piecePeers, haveNotifyC,
                   dropped, nHaves, nAnnounces, pendingPeers, downloaderPeers,
                   transfers, announceEvents, transfersM, announceErrors, hashRes,
                   peerHave, peersM>>
    /\ UNCHANGED transferOthers

\* t.rain.transfersM.Unlock(); the deferred function returns and Run is over
TransferDeferUnlock ==
    /\ tpc = "deferDeletedSKey"
    /\ transfersM' = "free"
    /\ tpc' = "exited"
    /\ UNCHANGED <<stopC, pieceLength, checkHash, hashIdx, bitField, piecePeers, haveNotifyC,
                   dropped, nHaves, nAnnounces, pendingPeers, downloaderPeers, transfers,
                   transfersSKey, announceEvents, announceErrors, hashRes, peerHave, peersM>>
    /\ UNCHANGED transferOthers

\* the downloader receives from its haveNotifyC
DownloaderDrainHave ==
    /\ haveNotifyC > 0
    /\ haveNotifyC' = haveNotifyC - 1
    /\ UNCHANGED <<stopC, tpc, pieceLength, checkHash, hashIdx, bitField, piecePeers, dropped,
                   nHaves, nAnnounces, pendingPeers, downloaderPeers, transfers, transfersSKey,
                   announceEvents, transfersM, announceErrors,
                   hashRes, peerHave,
                   peersM>>
    /\ UNCHANGED transferOthers

\* the downloader has verified a piece complete
DownloaderPieceVerified ==
    /\ tpc \in RunLoop \cup (Unwind \ {"exited"})
    /\ \E i \in PieceIndexes :
          /\ ~Test(bitField, i)
          /\ bitField' = Set(bitField, i)
    /\ UNCHANGED <<stopC, tpc, pieceLength, checkHash, hashIdx, piecePeers, haveNotifyC, dropped,
                   nHaves, nAnnounces, pendingPeers, downloaderPeers, transfers, transfersSKey,
                   announceEvents, transfersM, announceErrors,
                   hashRes, peerHave,
                   peersM>>
    /\ UNCHANGED transferOthers

TransferNext ==
    \/ CloseStopC
    \/ NewTransferPrepare
    \/ NewTransferHashCheck
    \/ TransferRunLock
    \/ TransferRunInsert
    \/ TransferRunInsertSKey
    \/ TransferRunUnlock
    \/ TransferRunStart
    \/ TransferAnnounceResponse
    \/ DownloaderRecvPeers
    \/ TransferRecvHave
    \/ TransferPieceLock
    \/ TransferPieceAppend
    \/ TransferPieceUnlock
    \/ TransferNotify
    \/ TransferRunUnwind
    \/ TransferDeferLock
    \/ TransferDeferDelete
    \/ TransferDeferDeleteSKey
    \/ TransferDeferUnlock
    \/ PiecePeersReaderLock
    \/ PiecePeersReaderUnlock
    \/ DownloaderDrainHave
    \/ DownloaderPieceVerified

----------------------------------------------------------------------------

(* File Preparer: prepareFiles and openOrAllocate *)

\* number of files declared by a multi-file torrent
NumFiles == 2

\* declared lengths and on-disk sizes drawn
FileLengths == {0, 1, 2}

\* a path on disk before the call: absent, or a file of some size
DiskStates == {[present |-> FALSE, size |-> 0]} \cup
              {[present |-> TRUE, size |-> s] : s \in FileLengths}

\* the I/O call of openOrAllocate that fails, if any
IOFailures == {"none", "OpenFile", "Stat", "Truncate", "Sync"}

\* openOrAllocate(path, length) on a path in state disk: the state of the
\* path afterwards, whether the returned handle is open, exists and err
openOrAllocate(disk, length, fail) ==
    LET \* os.OpenFile(path, O_RDWR|O_CREATE): an absent path is created empty
        size == IF disk.present THEN disk.size ELSE 0
        opened == [present |-> TRUE, size |-> size]
    IN  IF fail = "OpenFile"
        THEN [disk |-> disk, open |-> FALSE, exists |-> FALSE, err |-> "io"]
        ELSE IF fail = "Stat"
        THEN \* the deferred f.Close() runs on every error after the open
             [disk |-> opened, open |-> FALSE, exists |-> FALSE, err |-> "io"]
        ELSE IF size = 0 /\ length # 0
        THEN IF fail = "Truncate"
             THEN [disk |-> opened, open |-> FALSE, exists |-> FALSE, err |-> "io"]
             ELSE IF fail = "Sync"
             THEN [disk |-> [present |-> TRUE, size |-> length],
                   open |-> FALSE, exists |-> FALSE, err |-> "io"]
             ELSE [disk |-> [present |-> TRUE, size |-> length],
                   open |-> TRUE, exists |-> FALSE, err |-> "none"]
        ELSE IF size # length
             THEN [disk |-> opened, open |-> FALSE, exists |-> FALSE, err |-> "sizeMismatch"]
             ELSE [disk |-> opened, open |-> TRUE, exists |-> TRUE, err |-> "none"]

FilesInit ==
    /\ fpc = "idle"
    /\ fMulti = FALSE
    /\ fDeclared = <<>>
    /\ fPre = <<>>
    /\ fFail = <<>>
    /\ fRes = <<>>
    /\ fErr = "none"
    /\ fCheckHash = FALSE

\* what a step of the file preparer leaves alone
filesOthers == <<stopC, dialerVars, handlerVars, transferVars, connectVars>>

\* prepareFiles(info, where) is called: the torrent metadata and the
\* destination directory as they are at the call
PrepareFilesCall ==
    /\ fpc = "idle"
    /\ \E multi \in BOOLEAN :
          /\ fMulti' = multi
          /\ \E n \in (IF multi THEN 1..NumFiles ELSE {1}) :
                /\ fDeclared' \in [1..n -> FileLengths]
                /\ fPre' \in [1..n -> DiskStates]
    /\ fpc' = "open"
    /\ UNCHANGED <<fFail, fRes, fErr, fCheckHash>>
    /\ UNCHANGED filesOthers

\* one openOrAllocate call of prepareFiles (for a multi-file torrent after
\* os.MkdirAll), and what prepareFiles does with its result
PrepareFilesOpen ==
    /\ fpc = "open"
    /\ LET i == Len(fRes) + 1 IN
       \E fail \in IOFailures \cup (IF fMulti THEN {"MkdirAll"} ELSE {}) :
          LET r == IF fail = "MkdirAll"
                   THEN [disk |-> fPre[i], open |-> FALSE, exists |-> FALSE, err |-> "io"]
                   ELSE openOrAllocate(fPre[i], fDeclared[i], fail)
          IN  /\ fFail' = Append(fFail, fail)
              /\ fRes' = Append(fRes, r)
              /\ IF r.err # "none"
                 THEN /\ fErr' = r.err
                      /\ fpc' = "done"
                      /\ UNCHANGED fCheckHash
                 ELSE /\ fCheckHash' = (fCheckHash \/ r.exists)
                      /\ fpc' = IF i = Len(fDeclared) THEN "done" ELSE "open"
                      /\ UNCHANGED fErr
    /\ UNCHANGED <<fMulti, fDeclared, fPre>>
    /\ UNCHANGED filesOthers

FilesNext ==
    \/ PrepareFilesCall
    \/ PrepareFilesOpen

----------------------------------------------------------------------------
(* Outbound connection of a transfer: transfer.connect *)

\* number of connect calls in flight
NumConns == 3

Conns == 1..NumConns

\* results of connection.Dial
DialResults == {"ok", "ErrOwnConnection", "otherError"}

ConnectInit ==
    /\ cpc = [c \in Conns |-> "dial"]
    /\ cDial = [c \in Conns |-> "none"]
    /\ cLog = [c \in Conns |-> "none"]
    /\ cServed = [c \in Conns |-> 0]
    /\ cClosed = [c \in Conns |-> FALSE]

\* what a step of connect leaves alone
connectOthers == <<stopC, dialerVars, handlerVars, transferVars, filesVars>>

\* connection.Dial returns: on an error log it (ErrOwnConnection at debug
\* level, any other at error level) and return; otherwise defer
\* conn.Close(), newPeer and p.Serve(t)
ConnectDialLogsAllErrors(c) ==
    /\ cpc[c] = "dial"
    /\ \E res \in DialResults :
          /\ cDial' = [cDial EXCEPT ![c] = res]
          /\ IF res # "ok"
             THEN /\ cLog' = [cLog EXCEPT ![c] = "error"]
                  /\ cpc' = [cpc EXCEPT ![c] = "done"]
                  /\ UNCHANGED cServed
             ELSE /\ cServed' = [cServed EXCEPT ![c] = @ + 1]
                  /\ cpc' = [cpc EXCEPT ![c] = "serving"]
                  /\ UNCHANGED cLog
    /\ UNCHANGED cClosed
    /\ UNCHANGED connectOthers

ConnectDial(c) ==
    /\ cpc[c] = "dial"
    /\ \E res \in DialResults :
          /\ cDial' = [cDial EXCEPT ![c] = res]
          /\ IF res # "ok"
             THEN /\ cLog' = [cLog EXCEPT ![c] =
                                 IF res = "ErrOwnConnection" THEN "debug" ELSE "error"]
                  /\ cpc' = [cpc EXCEPT ![c] = "done"]
                  /\ UNCHANGED cServed
             ELSE /\ cServed' = [cServed EXCEPT ![c] = @ + 1]
                  /\ cpc' = [cpc EXCEPT ![c] = "serving"]
                  /\ UNCHANGED cLog
    /\ UNCHANGED cClosed
    /\ UNCHANGED connectOthers

\* p.Serve(t) returns and the deferred conn.Close() runs
ConnectServeReturns(c) ==
    /\ cpc[c] = "serving"
    /\ cClosed' = [cClosed EXCEPT ![c] = TRUE]
    /\ cpc' = [cpc EXCEPT ![c] = "done"]
    /\ UNCHANGED <<cDial, cLog, cServed>>
    /\ UNCHANGED connectOthers

ConnectNext ==
    \E c \in Conns :
        \/ ConnectDial(c)
        \/ ConnectServeReturns(c)

----------------------------------------------------------------------------
Init ==
    /\ stopC = FALSE
    /\ DialerInit
    /\ HandlerInit
    /\ TransferInit
    /\ FilesInit
    /\ ConnectInit

Next == DialerNext \/ HandlerNext \/ TransferNext \/ FilesNext \/ ConnectNext

\* all components running side by side
Spec == Init /\ [][Next]_vars

\* each component on its own: the others share only stopC with it

SpecDialer == Init /\ [][DialerNext]_vars

SpecHandler == Init /\ [][HandlerNext]_vars

SpecTransfer == Init /\ [][TransferNext]_vars

SpecFiles == Init /\ [][FilesNext]_vars

SpecConnect == Init /\ [][ConnectNext]_vars

\* Go's select picks uniformly among its ready cases, so a stop case that is
\* ready again and again is eventually taken; a worker told to stop returns.
FairSpecDialer ==
    /\ SpecDialer
    /\ SF_vars(DialerStopOuter)
    /\ SF_vars(DialerStopInner)
    /\ WF_vars(workersStopping /\ WorkerRunReturns)
    /\ WF_vars(DialerReturn)

----------------------------------------------------------------------------
Outstanding == acquired - released

\* C1: the number of limiter slots acquired and not yet released is in
\* 0..40 and at most 40 dial workers run at the same time.
C1_LimiterBounded ==
    /\ Outstanding \in 0..maxDial
    /\ limiter = Outstanding
    /\ running <= maxDial

C1_Witness ==
    /\ limiter = maxDial
    /\ running = maxDial
    /\ dpc = "outer"
    /\ offered >= maxDial

\* C8: once stopC is closed, Dialer.Run eventually returns.
C8_StopLeadsToReturn == stopC ~> (dpc = "returned")

C8_Witness ==
    /\ dpc = "returned"
    /\ stopAt = "inner"
    /\ offered > 0

\* C2 (as claimed): once the Dialer has returned and every worker has
\* finished, no limiter slot is outstanding.
C2_BalancedAtExit ==
    (dpc = "returned" /\ running = 0 /\ finishing = 0) => Outstanding = 0
----------------------------------------------------------------------------
\* handlers that hold a registration: past a successful Add, Remove not yet run
Holders(id) == {h \in Handlers : hpc[h] \in {"added", "session", "returning"} /\ hPeerID[h] = id}

\* C3: of the inbound handlers whose handshakes yield the same PeerID, at
\* most one at a time is past the registry add (holding the registration or
\* running a Peer Session).
C3_OneSessionPerPeerID ==
    \A id \in RemotePeerIDs :
        /\ Cardinality(Holders(id)) <= 1
        /\ (Holders(id) # {} => id \in peerIDs)

C3_Witness ==
    \E h1, h2, h3 \in Handlers :
        /\ hpc[h1] = "session"
        /\ peerIDs = {hPeerID[h1]}
        /\ hOutcome[h2] = "duplicate"
        /\ hpc[h3] = "accepted" /\ hPeerID[h3] = hPeerID[h1]

\* C4: a handler whose add succeeded removes its PeerID exactly once, after
\* the session returned; the registry never holds a PeerID without a live
\* handler that registered it.
C4_RemoveExactlyOnce ==
    /\ \A h \in Handlers :
          /\ (hpc[h] = "done" /\ hOutcome[h] \in {"sessionEnded", "stopped"}) => hRemoves[h] = 1
          /\ (hpc[h] # "done" \/ hOutcome[h] \in {"handshakeError", "duplicate"}) => hRemoves[h] = 0
    /\ \A id \in peerIDs : Holders(id) # {}

C4_Witness ==
    \E h1, h2 \in Handlers :
        /\ hpc[h1] = "done" /\ hOutcome[h1] = "stopped" /\ hRemoves[h1] = 1
        /\ hpc[h2] = "done" /\ hOutcome[h2] = "sessionEnded" /\ hRemoves[h2] = 1
        /\ peerIDs = {}

\* C5: a handler that ends on a handshake error or on a duplicate PeerID has
\* closed its socket and built no Peer Session; the step that ends it on a
\* handshake error leaves the registry unchanged.
C5_FailurePathsClose ==
    [][\A h \in Handlers :
          (hpc[h] # "done" /\ hpc'[h] = "done" /\ hOutcome'[h] \in {"handshakeError", "duplicate"})
              => /\ hConnClosed'[h]
                 /\ hSessions'[h] = 0
                 /\ (hOutcome'[h] = "handshakeError" => peerIDs' = peerIDs)]_vars

C5_Witness ==
    \E h1, h2 \in Handlers :
        /\ hOutcome[h1] = "handshakeError" /\ hConnClosed[h1] /\ hSessions[h1] = 0
        /\ hOutcome[h2] = "duplicate" /\ hConnClosed[h2] /\ hSessions[h2] = 0
        /\ peerIDs # {}

\* C6: the extension mask handed to the Peer Session has bit i set iff both
\* the locally advertised mask and the remotely advertised mask have bit i set.
C6_EffectiveIsIntersection ==
    \A h \in Handlers :
        hSessionExt[h] # <<>> =>
            \A i \in 0..(ExtensionBits - 1) :
                Test(hSessionExt[h], i) <=> (Test(hAdvertised[h], i) /\ Test(hPeerExt[h], i))

C6_Witness ==
    \E h \in Handlers :
        /\ hpc[h] = "session"
        /\ Test(hPeerExt[h], 5) /\ Test(hPeerExt[h], 61)
        /\ Test(hSessionExt[h], 61) /\ ~Test(hSessionExt[h], 5)
----------------------------------------------------------------------------
\* C7: however many have events the coordinator handles while the downloader
\* has not drained its wake-up channel, at most one wake-up is pending, and
\* the wake-up step of the coordinator is never blocked.
C7_HaveCoalescing ==
    /\ haveNotifyC \in 0..1
    /\ (tpc = "notify" => ENABLED TransferNotify)

C7_Witness ==
    /\ tpc = "select"
    /\ nHaves = MaxHaves
    /\ dropped = MaxHaves - 1
    /\ haveNotifyC = 1

\* C9 (as claimed): at each blocking wait of the run loop a closed stop
\* signal lets the coordinator leave the Running state.
C9_WaitsCancellable ==
    (stopC /\ tpc \in {"select", "sendPeers", "haveRecv"}) =>
        ENABLED (TransferNext /\ tpc' \notin RunLoop \cup Unwind)

\* C10: no step clears a bit of the CompletionBitfield, and Downloaded()
\* never decreases.
C10_BitsMonotonic ==
    [][/\ \A i \in PieceIndexes : Test(bitField, i) => Test(bitField', i)
       /\ Downloaded(bitField', pieceLength') >= Downloaded(bitField, pieceLength)]_vars

C10_Witness ==
    /\ tpc = "select"
    /\ nHaves > 0
    /\ Test(bitField, 0)
    /\ ~Test(bitField, NumPieces - 1)
    /\ Downloaded(bitField, pieceLength) > 0
    /\ Left(bitField, pieceLength) > 0
----------------------------------------------------------------------------
\* openOrAllocate calls made so far in which no I/O call failed
CleanCalls == {i \in 1..Len(fRes) : fFail[i] = "none"}

\* C11 (as claimed): an absent path with a nonzero declared length becomes a
\* file of exactly that length with exists=false; a pre-existing file of any
\* other size than the declared length gives a size-mismatch error and no
\* open handle; a pre-existing file of the declared length gives exists=true
\* and keeps its size.
C11_OpenOrAllocateAsClaimed ==
    \A i \in CleanCalls :
        /\ (~fPre[i].present /\ fDeclared[i] # 0) =>
              (fRes[i].err = "none" /\ fRes[i].disk.size = fDeclared[i] /\ ~fRes[i].exists)
        /\ (fPre[i].present /\ fPre[i].size # fDeclared[i]) =>
              (fRes[i].err = "sizeMismatch" /\ ~fRes[i].open)
        /\ (fPre[i].present /\ fPre[i].size = fDeclared[i]) =>
              (fRes[i].err = "none" /\ fRes[i].exists /\ fRes[i].disk.size = fPre[i].size)

\* C14 (as claimed): when prepareFiles succeeds, checkHash is true exactly
\* when at least one declared file was on disk before the call.
C14_CheckHashIffPreExisting ==
    (fpc = "done" /\ fErr = "none") =>
        (fCheckHash <=> \E i \in 1..Len(fPre) : fPre[i].present)

\* C12: a connect whose dial reports ErrOwnConnection logs it at debug level
\* only, every other dial error is logged at error level, and in both cases
\* connect returns without serving a session; a session is served only after
\* a successful dial.
C12_OwnConnectionBenign ==
    \A c \in Conns :
        /\ cDial[c] = "ErrOwnConnection" =>
              (cLog[c] = "debug" /\ cServed[c] = 0 /\ cpc[c] = "done")
        /\ cDial[c] = "otherError" =>
              (cLog[c] = "error" /\ cServed[c] = 0 /\ cpc[c] = "done")
        /\ cServed[c] > 0 => (cDial[c] = "ok" /\ cLog[c] = "none")

C12_Witness ==
    \E c1, c2, c3 \in Conns :
        /\ cDial[c1] = "ErrOwnConnection" /\ cLog[c1] = "debug" /\ cpc[c1] = "done"
        /\ cDial[c2] = "otherError" /\ cLog[c2] = "error" /\ cpc[c2] = "done"
        /\ cpc[c3] = "serving"
----------------------------------------------------------------------------
\* C13: per inbound connection the registry add is attempted only after a
\* successful handshake, a Peer Session is built only after the add returned
\* true, and a running session's PeerID is in the registry.
C13_HandshakeAddSession ==
    \A h \in Handlers :
        /\ hAdds[h] \in 0..1 /\ hSessions[h] \in 0..1
        /\ hAdds[h] > 0 => (hpc[h] # "start" /\ hOutcome[h] # "handshakeError")
        /\ hOutcome[h] = "handshakeError" => (hAdds[h] = 0 /\ hSessions[h] = 0)
        /\ hSessions[h] > 0 => (hAdds[h] = 1 /\ hOutcome[h] # "duplicate")
        /\ hpc[h] \in {"added", "session", "returning"} => hAdds[h] = 1
        /\ hpc[h] = "session" => (hSessions[h] = 1 /\ hPeerID[h] \in peerIDs)

C13_Witness ==
    \E h1, h2, h3 \in Handlers :
        /\ hpc[h1] = "session" /\ hAdds[h1] = 1 /\ hPeerID[h1] \in peerIDs
        /\ hOutcome[h2] = "handshakeError" /\ hAdds[h2] = 0
        /\ hOutcome[h3] = "duplicate" /\ hAdds[h3] = 1 /\ hSessions[h3] = 0

\* C19: a handler rejected as a duplicate never calls remove, so while a
\* handler holds the registration of a PeerID that PeerID stays in the
\* registry and no other handler holds it, however many duplicates were
\* rejected meanwhile.
C19_DuplicateNeverRemoves ==
    /\ \A h \in Handlers : hOutcome[h] = "duplicate" => hRemoves[h] = 0
    /\ \A h \in Handlers :
          hpc[h] \in {"added", "session", "returning"} =>
              /\ hPeerID[h] \in peerIDs
              /\ \A g \in Handlers \ {h} :
                    hpc[g] \in {"added", "session", "returning"} => hPeerID[g] # hPeerID[h]

C19_Witness ==
    \E h1, h2, h3 \in Handlers :
        /\ h2 # h3
        /\ hpc[h1] = "session"
        /\ peerIDs = {hPeerID[h1]}
        /\ hOutcome[h2] = "duplicate" /\ hpc[h2] = "done"
        /\ hOutcome[h3] = "duplicate" /\ hpc[h3] = "done"
----------------------------------------------------------------------------
\* C15: the announce event is chosen in the one step of transfer.Run that
\* starts the announce loop: "completed" iff every bit of the bitfield is
\* set in that step, "started" otherwise; a run has exactly one announce
\* loop and no later step starts another or changes the event.
C15_AnnounceChosenOnce ==
    [][/\ announceEvents' # announceEvents =>
             /\ tpc = "registered"
             /\ announceEvents = <<>>
             /\ announceEvents' = <<IF \A i \in PieceIndexes : Test(bitField, i)
                                    THEN "completed" ELSE "started">>
       /\ tpc' \in RunLoop \cup Unwind => Len(announceEvents') = 1
       /\ tpc' \notin RunLoop \cup Unwind => announceEvents' = <<>>]_vars

C15_Witness ==
    /\ tpc = "select"
    /\ announceEvents = <<"started">>
    /\ \A i \in PieceIndexes : Test(bitField, i)

\* C16: every announce response is either an error, which forwards nothing
\* and leaves the loop running, or is forwarded to the downloader exactly
\* once, in order.
C16_AnnounceResponses ==
    /\ Len(downloaderPeers) + (IF pendingPeers # 0 THEN 1 ELSE 0) + announceErrors = nAnnounces
    /\ \A k \in 1..Len(downloaderPeers) :
          /\ downloaderPeers[k] \in 1..nAnnounces
          /\ \A j \in 1..(k - 1) : downloaderPeers[j] < downloaderPeers[k]
    /\ (pendingPeers # 0) <=> (tpc = "sendPeers")
    /\ pendingPeers # 0 => pendingPeers = nAnnounces
    /\ announceErrors > 0 => tpc \in RunLoop \cup Unwind
    /\ (tpc = "select" /\ announceErrors > 0 /\ nAnnounces < MaxAnnounces) =>
          ENABLED TransferAnnounceResponse

C16_Witness ==
    /\ tpc = "select"
    /\ announceErrors = 1
    /\ downloaderPeers = <<2>>
    /\ nHaves >= 1

\* C17: a failed newTransfer leaves no transfer behind; an I/O error of a
\* hash check fails it; a created transfer has bit i set iff the hash check
\* was required and piece i's check succeeded.
C17_InitialBitfield ==
    /\ tpc = "failed" =>
          (transfers = {} /\ transfersSKey = {} /\ announceEvents = <<>> /\ transfersM = "free")
    /\ (\E i \in PieceIndexes : hashRes[i] = "error") => tpc = "failed"
    /\ tpc = "hashCheck" =>
          /\ checkHash
          /\ \A i \in PieceIndexes :
                /\ Test(bitField, i) <=> hashRes[i] = "ok"
                /\ i >= hashIdx => hashRes[i] = "none"
    /\ tpc = "created" =>
          /\ \A i \in PieceIndexes : Test(bitField, i) <=> (checkHash /\ hashRes[i] = "ok")
          /\ checkHash => \A i \in PieceIndexes : hashRes[i] \in {"ok", "mismatch"}
          /\ ~checkHash => hashRes = NoHashRes

C17_Witness ==
    /\ tpc = "created"
    /\ checkHash
    /\ hashRes[0] = "ok" /\ Test(bitField, 0)
    /\ hashRes[1] = "mismatch" /\ ~Test(bitField, 1)

\* C18: whenever transfersM is free the transfer is in rain.transfers iff it
\* is in rain.transfersSKey; both entries are inserted while transfer.Run
\* holds the mutex at its start, both are deleted while its deferred function
\* holds the mutex at its exit, and no other step changes the tables.
C18_TablesConsistent ==
    /\ transfersM = "free" =>
          (InfoHash \in transfers <=> HashSKey(InfoHash) \in transfersSKey)
    /\ transfersM = "held" <=>
          tpc \in {"locked", "inserted", "insertedSKey",
                   "deferLocked", "deferDeleted", "deferDeletedSKey"}
    /\ tpc \in {"new", "hashCheck", "created", "failed", "locked"} =>
          (transfers = {} /\ transfersSKey = {})
    /\ tpc = "inserted" => (transfers = {InfoHash} /\ transfersSKey = {})
    /\ tpc \in {"insertedSKey", "registered", "unwinding", "deferLocked"} \cup RunLoop =>
          (transfers = {InfoHash} /\ transfersSKey = {HashSKey(InfoHash)})
    /\ tpc = "deferDeleted" => (transfers = {} /\ transfersSKey = {HashSKey(InfoHash)})
    /\ tpc \in {"deferDeletedSKey", "exited"} => (transfers = {} /\ transfersSKey = {})

C18_Witness ==
    /\ tpc = "exited"
    /\ transfersM = "free"
    /\ nHaves > 0
    /\ InfoHash \notin transfers
    /\ HashSKey(InfoHash) \notin transfersSKey

RECURSIVE HavesRecorded(_)
HavesRecorded(n) ==
    IF n = 0 THEN 0 ELSE HavesRecorded(n - 1) + Len(piecePeers[n - 1])

\* C20: a have event appends its peer to the list of its piece and to no
\* other list, with the piece's mutex held by the coordinator, in a step
\* before the wake-up is attempted; the lists hold every have handled,
\* whether or not its wake-up was dropped.
C20_HaveRecordedBeforeWakeUp ==
    /\ [](/\ HavesRecorded(NumPieces) + (IF tpc \in {"haveRecv", "haveLocked"} THEN 1 ELSE 0)
                = nHaves
          /\ tpc \in {"haveAppended", "notify"} =>
                /\ peerHave.piece \in PieceIndexes
                /\ peerHave.peer \in HavePeers
                /\ Len(piecePeers[peerHave.piece]) >= 1
                /\ piecePeers[peerHave.piece][Len(piecePeers[peerHave.piece])] = peerHave.peer
          /\ \A i \in PieceIndexes :
                peersM[i] = "transfer" <=>
                    (tpc \in {"haveLocked", "haveAppended"} /\ peerHave.piece = i))
    /\ [][/\ piecePeers' # piecePeers =>
                /\ peersM[peerHave.piece] = "transfer"
                /\ peersM' = peersM
                /\ peerHave' = peerHave
                /\ piecePeers' = [piecePeers EXCEPT ![peerHave.piece] = Append(@, peerHave.peer)]
                /\ haveNotifyC' = haveNotifyC /\ dropped' = dropped
          /\ (haveNotifyC' > haveNotifyC \/ dropped' > dropped) =>
                /\ tpc = "notify"
                /\ piecePeers' = piecePeers]_vars

C20_Witness ==
    /\ tpc = "select"
    /\ dropped >= 1
    /\ nHaves >= 2
    /\ piecePeers[0] # <<>>
    /\ piecePeers[1] # <<>>
====
